---- MODULE Spec2Model ----
(***************************************************************************)
(* Model of Resources/Fonts/build_color_font.py: the command-line entry,   *)
(* build_font and its three stages (build_with_nanoemoji, apply_metadata,  *)
(* generate_preview_html), with the files they create and remove.          *)
(*                                                                         *)
(* Strings are sequences of one-character strings, so that parsing,        *)
(* formatting and replacing are computed and not assumed.                  *)
(***************************************************************************)
EXTENDS Integers, Sequences, FiniteSets, TLC

VARIABLES
    argc,          \* len(sys.argv)
    pc,            \* position of the run
    config,        \* the loaded configuration (a record; <<>> before load_config)
    i,             \* index of the glyph the copy loop is at (1-based)
    faults,        \* the steps that raised an exception so far
    toml,          \* TRUE iff the file at toml_path exists
    scratchExists, \* TRUE iff the directory temp_svg_dir exists
    scratchFiles,  \* file name -> content, for the files of temp_svg_dir
    copied,        \* dst_filename of each iteration of the copy loop, in order
    cmd,           \* argument vector the compiler was run with (<<>>: not run)
    temp,          \* the file at temp_path
    font,          \* the TTFont object apply_metadata works on
    call,          \* index of the next set_name_record call of apply_metadata
    output,        \* the file at output_path as written by this run
    preview,       \* preview.html as written by this run: [state, cards]
    started,       \* stages entered, in order
    succeeded,     \* stages that returned normally, in order
    status         \* "running", "usage" (exit 1), "ok" (exit 0), "error" (traceback, exit 1)

vars == <<argc, pc, config, i, faults, toml, scratchExists, scratchFiles, copied,
          cmd, temp, font, call, output, preview, started, succeeded, status>>

----------------------------------------------------------------------------
(* Bounds of the model *)

MaxArgc == 5
MaxGlyphs == 2
MaxCards == 3
MaxNameLen == 3
MaxPreexisting == 2
MaxLeadingZeros == 1

----------------------------------------------------------------------------
(* Strings *)

Min(a, b) == IF a < b THEN a ELSE b

EmptyFn == [x \in {} |-> x]

\* dict.get(key, default)
Get(d, key, default) == IF key \in DOMAIN d THEN d[key] ELSE default

LowerHexDigits == <<"0","1","2","3","4","5","6","7","8","9","a","b","c","d","e","f">>
UpperHexDigits == <<"0","1","2","3","4","5","6","7","8","9","A","B","C","D","E","F">>

\* value of one character as a base-16 digit, -1 when it is none
DigitValue(c) ==
    IF \E k \in 1..16 : LowerHexDigits[k] = c \/ UpperHexDigits[k] = c
    THEN (CHOOSE k \in 1..16 : LowerHexDigits[k] = c \/ UpperHexDigits[k] = c) - 1
    ELSE -1

RECURSIVE DigitsValue(_)
DigitsValue(s) ==
    IF Len(s) = 0 THEN 0
    ELSE 16 * DigitsValue(SubSeq(s, 1, Len(s) - 1)) + DigitValue(s[Len(s)])

HasHexPrefix(s) == Len(s) >= 2 /\ s[1] = "0" /\ s[2] \in {"x", "X"}

\* int(s, 16): an optional 0x / 0X prefix, then one or more base-16 digits of
\* either case. BadInt stands for the ValueError.
BadInt == -1
IntBase16Decimal(s) ==
    LET d == IF HasHexPrefix(s) THEN SubSeq(s, 3, Len(s)) ELSE s
    IN  IF Len(d) = 0 \/ \E k \in 1..Len(d) : DigitValue(d[k]) \notin 0..9
        THEN BadInt
        ELSE LET RECURSIVE Dec(_)
                 Dec(t) == IF Len(t) = 0 THEN 0
                           ELSE 10 * Dec(SubSeq(t, 1, Len(t) - 1)) + DigitValue(t[Len(t)])
             IN Dec(d)
IntBase16(s) ==
    LET d == IF HasHexPrefix(s) THEN SubSeq(s, 3, Len(s)) ELSE s
    IN  IF Len(d) = 0 \/ \E k \in 1..Len(d) : DigitValue(d[k]) = -1
        THEN BadInt
        ELSE DigitsValue(d)

\* digits of n >= 0 in base 16, most significant first, from the digit table
RECURSIVE HexDigits(_, _)
HexDigits(n, table) ==
    IF n < 16 THEN <<table[n + 1]>>
    ELSE HexDigits(n \div 16, table) \o <<table[(n % 16) + 1]>>

RECURSIVE ZeroPad(_, _)
ZeroPad(s, width) == IF Len(s) >= width THEN s ELSE ZeroPad(<<"0">> \o s, width)

\* f"{n:04x}" and f"{n:04X}"
Format04x(n) == ZeroPad(HexDigits(n, LowerHexDigits), 4)
Format04X(n) == ZeroPad(HexDigits(n, UpperHexDigits), 4)

\* str.replace(old, new) for a one-character old
RECURSIVE Replace(_, _, _)
Replace(s, old, new) ==
    IF Len(s) = 0 THEN <<>>
    ELSE (IF s[1] = old THEN new ELSE <<s[1]>>) \o Replace(Tail(s), old, new)

\* s[:n] and s.ljust(n)
Prefix(s, n) == SubSeq(s, 1, Min(n, Len(s)))
RECURSIVE LJust(_, _)
LJust(s, n) == IF Len(s) >= n THEN s ELSE LJust(s \o <<" ">>, n)

\* sep.join(list)
RECURSIVE Join(_, _)
Join(sep, list) ==
    IF Len(list) = 0 THEN <<>>
    ELSE IF Len(list) = 1 THEN list[1]
    ELSE list[1] \o sep \o Join(sep, Tail(list))

\* the orders in which os.listdir may return the names of S
Orders(S) ==
    {s \in [1..Cardinality(S) -> S] : \A j, k \in DOMAIN s : j # k => s[j] # s[k]}

----------------------------------------------------------------------------
(* Glyph entries *)

\* a codepoint as JSON gives it: a string (isStr, s) or an integer (n)
StrCp(s) == [isStr |-> TRUE, s |-> s, n |-> 0]
IntCp(n) == [isStr |-> FALSE, s |-> <<>>, n |-> n]

\* codepoint = int(cp, 16) if isinstance(cp, str) else cp
ResolveCodepoint(cp) == IF cp.isStr THEN IntBase16(cp.s) ELSE cp.n

\* dst_filename = f"emoji_u{codepoint:04x}.svg"
DstFilename(codepoint) == <<"emoji_u">> \o Format04x(codepoint) \o <<".svg">>

\* the SVG directory: file name -> content
SvgDir == [f \in {"a.svg", "b.svg"} |-> IF f = "a.svg" THEN "svg A" ELSE "svg B"]

----------------------------------------------------------------------------
(* Metadata writer *)

NAME_IDS ==
    [copyright |-> 0, family |-> 1, subfamily |-> 2, unique_id |-> 3, fullname |-> 4,
     version |-> 5, postscript_name |-> 6, trademark |-> 7, manufacturer |-> 8,
     designer |-> 9, description |-> 11, vendor_url |-> 12, designer_url |-> 13,
     license |-> 14, license_url |-> 15]

NameRecord(string, nameID, platformID, platEncID, langID) ==
    [nameID |-> nameID, platformID |-> platformID, platEncID |-> platEncID,
     langID |-> langID, string |-> string]

SameKey(r, nameID, platformID, platEncID, langID) ==
    /\ r.nameID = nameID
    /\ r.platformID = platformID
    /\ r.platEncID = platEncID
    /\ r.langID = langID

\* name_table.setName(string, nameID, platformID, platEncID, langID): the record
\* with that key gets the string, and a new record is appended when there is none
SetName(names, string, nameID, platformID, platEncID, langID) ==
    LET hits == {k \in 1..Len(names) :
                    SameKey(names[k], nameID, platformID, platEncID, langID)}
    IN  IF hits # {}
        THEN LET first == CHOOSE k \in hits : \A h \in hits : k <= h
             IN  [names EXCEPT ![first].string = string]
        ELSE Append(names, NameRecord(string, nameID, platformID, platEncID, langID))

\* [r for r in names if r.nameID != name_id]
WithoutNameID(names, name_id) ==
    LET Other(r) == r.nameID # name_id
    IN  SelectSeq(names, Other)

SetNameRecordKeepingOld(names, name_id, value) ==
    SetName(SetName(names, value, name_id, 3, 1, 1033), value, name_id, 1, 0, 0)
SetNameRecord(names, name_id, value) ==
    LET kept == WithoutNameID(names, name_id)
        win  == SetName(kept, value, name_id, 3, 1, 1033)
    IN  SetName(win, value, name_id, 1, 0, 0)

PostscriptNameSpacesRemoved(name) == Replace(name, " ", <<>>)
PostscriptName(name) == Replace(name, " ", <<"-">>)

VendorId(fc) == Prefix(Get(fc, "vendorId", <<"N", "O", "N", "E">>), 4)

Version(fc) == Get(fc, "version", <<"1", ".", "0">>)

UniqueId(fc) ==
    VendorId(fc) \o <<";">> \o Version(fc) \o <<";">> \o PostscriptName(fc.name)

FullDescription(fc) ==
    LET description == Get(fc, "description", <<>>)
        keywords    == Get(fc, "keywords", <<>>)
    IN  IF Len(keywords) > 0
        THEN description \o <<"\n", "Keywords: ">> \o Join(<<", ">>, keywords)
        ELSE description

\* the fourteen set_name_record calls of apply_metadata, in order
MetadataFields(fc) ==
    << <<NAME_IDS.copyright, Get(fc, "copyright", <<>>)>>,
       <<NAME_IDS.family, fc.name>>,
       <<NAME_IDS.subfamily, <<"Regular">> >>,
       <<NAME_IDS.unique_id, UniqueId(fc)>>,
       <<NAME_IDS.fullname, fc.name>>,
       <<NAME_IDS.version, <<"Version ">> \o Version(fc)>>,
       <<NAME_IDS.postscript_name, PostscriptName(fc.name)>>,
       <<NAME_IDS.manufacturer, Get(fc, "vendor", <<>>)>>,
       <<NAME_IDS.designer, Get(fc, "designer", <<>>)>>,
       <<NAME_IDS.description, FullDescription(fc)>>,
       <<NAME_IDS.vendor_url, Get(fc, "designerUrl", <<>>)>>,
       <<NAME_IDS.designer_url, Get(fc, "designerUrl", <<>>)>>,
       <<NAME_IDS.license, Get(fc, "license", <<>>)>>,
       <<NAME_IDS.license_url, Get(fc, "licenseUrl", <<>>)>> >>


----------------------------------------------------------------------------
(* Preview generator *)

GlyphCard(glyph) ==
    LET codepoint == ResolveCodepoint(glyph.codepoint)
    IN  [icon |-> <<"&#x">> \o Format04X(codepoint) \o <<";">>,
         name |-> Get(glyph, "name", <<"unknown">>),
         code |-> <<"U+">> \o Format04X(codepoint)]

RECURSIVE GlyphCardsDistinct(_)
GlyphCardsDistinct(glyphs) ==
    IF Len(glyphs) = 0 THEN <<>>
    ELSE LET rest == GlyphCardsDistinct(SubSeq(glyphs, 1, Len(glyphs) - 1))
             card == GlyphCard(glyphs[Len(glyphs)])
         IN  IF \E k \in 1..Len(rest) : rest[k] = card THEN rest ELSE Append(rest, card)
\* the glyph_cards list, which the document holds joined by newlines
GlyphCards(glyphs) == [k \in 1..Len(glyphs) |-> GlyphCard(glyphs[k])]

\* every codepoint generate_preview_html converts parses
PreviewParses(glyphs) ==
    \A k \in 1..Len(glyphs) : ResolveCodepoint(glyphs[k].codepoint) # BadInt

----------------------------------------------------------------------------
(* Inputs *)

SeqsUpTo(S, n) == UNION {[1..k -> S] : k \in 0..n}

Star == <<"s", "t", "a", "r">>

\* font sections of config.json: a minimal one and one with every field
MinimalFont == [name |-> <<"T", " ", "I">>]
FullFont ==
    [name |-> <<"C", "M">>, version |-> <<"2", ".", "0">>,
     description |-> <<"icons">>, keywords |-> << <<"clip">>, <<"icon">> >>,
     vendorId |-> <<"C", "L", "I", "P", "M">>, vendor |-> <<"vendor">>,
     designer |-> <<"designer">>, designerUrl |-> <<"https://d">>,
     license |-> <<"MIT">>, licenseUrl |-> <<"https://l">>,
     copyright |-> <<"(c)">>]

\* glyph entries: two spellings of U+000A, U+E001, a codepoint that is no
\* number; two files of the SVG directory and one that is not there
GlyphCodepoints ==
    {IntCp(10), StrCp(<<"0", "x", "A">>), IntCp(57345), StrCp(<<"z">>)}
GlyphFiles == {"a.svg", "b.svg", "missing.svg"}
Glyphs == [codepoint : GlyphCodepoints, file : GlyphFiles, name : {Star}]

\* the documents load_config may read
Configs ==
    {[font |-> MinimalFont]}
    \cup [font : {MinimalFont, FullFont}, glyphs : SeqsUpTo(Glyphs, MaxGlyphs)]

\* name records a compiled font may carry before apply_metadata
NameRecordPool ==
    {NameRecord(<<"old">>, 1, 3, 1, 1033), NameRecord(<<"old">>, 1, 1, 0, 0),
     NameRecord(<<"uni">>, 1, 0, 3, 0), NameRecord(<<"alt">>, 6, 3, 1, 1031),
     NameRecord(<<"tm">>, 7, 3, 1, 1033), NameRecord(<<"old2">>, 1, 3, 1, 1033)}

\* a file that holds a font: its name table, whether it has an OS/2 table, and
\* the achVendID of that table
Font(names, os2, achVendID) ==
    [state |-> "font", names |-> names, os2 |-> os2, achVendID |-> achVendID]
NoFile == [state |-> "absent", names |-> <<>>, os2 |-> FALSE, achVendID |-> <<>>]
EmptyFile == [state |-> "empty", names |-> <<>>, os2 |-> FALSE, achVendID |-> <<>>]
PartialFile == [state |-> "partial", names |-> <<>>, os2 |-> FALSE, achVendID |-> <<>>]

\* what a successful compiler run may leave at temp_path
CompiledFonts ==
    {Font(<<>>, TRUE, <<"?", "?", "?", "?">>),
     Font(<<NameRecord(<<"old">>, 1, 3, 1, 1033), NameRecord(<<"uni">>, 1, 0, 3, 0)>>,
          FALSE, <<>>)}

NoPreview == [state |-> "absent", cards |-> <<>>]

----------------------------------------------------------------------------
(* The run *)

glyphs_config == Get(config, "glyphs", <<>>)

Init ==
    /\ argc \in 1..MaxArgc
    /\ pc = "main"
    /\ config = <<>>
    /\ i = 1
    /\ faults = {}
    /\ toml = FALSE
    /\ scratchExists = FALSE
    /\ scratchFiles = EmptyFn
    /\ copied = <<>>
    /\ cmd = <<>>
    /\ temp = NoFile
    /\ font = NoFile
    /\ call = 1
    /\ output = NoFile
    /\ preview = NoPreview
    /\ started = <<>>
    /\ succeeded = <<>>
    /\ status = "running"

\* if len(sys.argv) < 4: print(__doc__); sys.exit(1)
Main ==
    /\ pc = "main"
    /\ IF argc < 4
       THEN pc' = "done" /\ status' = "usage"
       ELSE pc' = "load" /\ status' = status
    /\ UNCHANGED <<font, call, argc, config, i, faults, toml, scratchExists, scratchFiles, copied,
                   cmd, temp, output, preview, started, succeeded>>

\* config = load_config(config_path)
LoadConfig ==
    /\ pc = "load"
    /\ \E c \in Configs : config' = c
    /\ started' = Append(started, "load")
    /\ succeeded' = Append(succeeded, "load")
    /\ pc' = "tempfile"
    /\ UNCHANGED <<font, call, argc, i, faults, toml, scratchExists, scratchFiles, copied, cmd,
                   temp, output, preview, status>>

\* open or json.load raises: nothing was created, the exception ends the run
LoadConfigFail ==
    /\ pc = "load"
    /\ started' = Append(started, "load")
    /\ faults' = faults \cup {"load"}
    /\ pc' = "done"
    /\ status' = "error"
    /\ UNCHANGED <<font, call, argc, config, i, toml, scratchExists, scratchFiles, copied, cmd,
                   temp, output, preview, succeeded>>

\* with tempfile.NamedTemporaryFile(suffix='.ttf', delete=False) as tmp
MakeTempFile ==
    /\ pc = "tempfile"
    /\ temp' = EmptyFile
    /\ pc' = "toml"
    /\ UNCHANGED <<font, call, argc, config, i, faults, toml, scratchExists, scratchFiles, copied,
                   cmd, output, preview, started, succeeded, status>>

\* build_with_nanoemoji is entered; the TOML file is written
WriteToml ==
    /\ pc = "toml"
    /\ started' = Append(started, "compile")
    /\ toml' = TRUE
    /\ pc' = "mkdtemp"
    /\ UNCHANGED <<font, call, argc, config, i, faults, scratchExists, scratchFiles, copied, cmd,
                   temp, output, preview, succeeded, status>>

\* open raises (no file) or f.write raises (the file is there); the statement is
\* outside the try of build_with_nanoemoji
WriteTomlFail ==
    /\ pc = "toml"
    /\ started' = Append(started, "compile")
    /\ \E created \in BOOLEAN : toml' = created
    /\ faults' = faults \cup {"toml"}
    /\ pc' = "finally"
    /\ UNCHANGED <<font, call, argc, config, i, scratchExists, scratchFiles, copied, cmd, temp,
                   output, preview, succeeded, status>>

\* temp_svg_dir = tempfile.mkdtemp()
Mkdtemp ==
    /\ pc = "mkdtemp"
    /\ scratchExists' = TRUE
    /\ scratchFiles' = EmptyFn
    /\ i' = 1
    /\ pc' = "copy"
    /\ UNCHANGED <<font, call, argc, config, faults, toml, copied, cmd, temp, output, preview,
                   started, succeeded, status>>

\* mkdtemp raises, before the try of build_with_nanoemoji is entered
MkdtempFail ==
    /\ pc = "mkdtemp"
    /\ faults' = faults \cup {"mkdtemp"}
    /\ pc' = "finally"
    /\ UNCHANGED <<font, call, argc, config, i, toml, scratchExists, scratchFiles, copied, cmd,
                   temp, output, preview, started, succeeded, status>>

\* shutil.copy(src_path, dst_path) into the scratch directory
CopyKeepFirst(files, dst, content) ==
    [f \in DOMAIN files \cup {dst} |-> IF f \in DOMAIN files THEN files[f] ELSE content]
CopyFile(files, dst, content) ==
    [f \in DOMAIN files \cup {dst} |-> IF f = dst THEN content ELSE files[f]]

\* one iteration of the copy loop
CopyGlyph ==
    /\ pc = "copy"
    /\ i <= Len(glyphs_config)
    /\ LET glyph     == glyphs_config[i]
           codepoint == ResolveCodepoint(glyph.codepoint)
       IN  /\ codepoint # BadInt
           /\ glyph.file \in DOMAIN SvgDir
           /\ scratchFiles' = CopyFile(scratchFiles, DstFilename(codepoint),
                                       SvgDir[glyph.file])
           /\ copied' = Append(copied, DstFilename(codepoint))
    /\ i' = i + 1
    /\ UNCHANGED <<font, call, argc, pc, config, faults, toml, scratchExists, cmd, temp, output,
                   preview, started, succeeded, status>>

\* int(cp, 16) raises ValueError
CopyBadCodepoint ==
    /\ pc = "copy"
    /\ i <= Len(glyphs_config)
    /\ ResolveCodepoint(glyphs_config[i].codepoint) = BadInt
    /\ faults' = faults \cup {"codepoint"}
    /\ pc' = "rmtree"
    /\ UNCHANGED <<font, call, argc, config, i, toml, scratchExists, scratchFiles, copied, cmd,
                   temp, output, preview, started, succeeded, status>>

\* shutil.copy raises FileNotFoundError: the SVG is not in svg_dir
CopyMissing ==
    /\ pc = "copy"
    /\ i <= Len(glyphs_config)
    /\ ResolveCodepoint(glyphs_config[i].codepoint) # BadInt
    /\ glyphs_config[i].file \notin DOMAIN SvgDir
    /\ faults' = faults \cup {"missing"}
    /\ pc' = "rmtree"
    /\ UNCHANGED <<font, call, argc, config, i, toml, scratchExists, scratchFiles, copied, cmd,
                   temp, output, preview, started, succeeded, status>>

\* shutil.copy raises on a file that is there
CopyFail ==
    /\ pc = "copy"
    /\ i <= Len(glyphs_config)
    /\ ResolveCodepoint(glyphs_config[i].codepoint) # BadInt
    /\ glyphs_config[i].file \in DOMAIN SvgDir
    /\ faults' = faults \cup {"copy"}
    /\ pc' = "rmtree"
    /\ UNCHANGED <<font, call, argc, config, i, toml, scratchExists, scratchFiles, copied, cmd,
                   temp, output, preview, started, succeeded, status>>

\* cmd = [nanoemoji_exe, toml_path] + svg_files, svg_files in os.listdir's order
CommandLine(order) == <<"nanoemoji", "toml_path">> \o order

\* subprocess.run(cmd, check=True) returns: the compiled font is at temp_path
RunCompiler ==
    /\ pc = "copy"
    /\ i > Len(glyphs_config)
    /\ \E order \in Orders(DOMAIN scratchFiles) : cmd' = CommandLine(order)
    /\ \E compiled \in CompiledFonts : temp' = compiled
    /\ pc' = "rmtree"
    /\ UNCHANGED <<font, call, argc, config, i, faults, toml, scratchExists, scratchFiles, copied,
                   output, preview, started, succeeded, status>>

\* the compiler exits non-zero: CalledProcessError
RunCompilerFail ==
    /\ pc = "copy"
    /\ i > Len(glyphs_config)
    /\ \E order \in Orders(DOMAIN scratchFiles) : cmd' = CommandLine(order)
    /\ \E t \in {temp, PartialFile} : temp' = t
    /\ faults' = faults \cup {"compiler"}
    /\ pc' = "rmtree"
    /\ UNCHANGED <<font, call, argc, config, i, toml, scratchExists, scratchFiles, copied, output,
                   preview, started, succeeded, status>>

\* finally: shutil.rmtree(temp_svg_dir)
Rmtree ==
    /\ pc = "rmtree"
    /\ scratchExists' = FALSE
    /\ scratchFiles' = EmptyFn
    /\ pc' = "unlink_toml"
    /\ UNCHANGED <<font, call, argc, config, i, faults, toml, copied, cmd, temp, output, preview,
                   started, succeeded, status>>

\* shutil.rmtree raises: the rest of the finally block is skipped
RmtreeFail ==
    /\ pc = "rmtree"
    /\ faults' = faults \cup {"rmtree"}
    /\ pc' = "finally"
    /\ UNCHANGED <<font, call, argc, config, i, toml, scratchExists, scratchFiles, copied, cmd,
                   temp, output, preview, started, succeeded, status>>

UnlinkTomlSwallowing ==
    /\ pc = "unlink_toml"
    /\ toml' = FALSE
    /\ pc' = "metadata"
    /\ succeeded' = IF faults = {} THEN Append(succeeded, "compile") ELSE succeeded
    /\ UNCHANGED <<font, call, argc, config, i, faults, scratchExists, scratchFiles, copied, cmd,
                   temp, output, preview, started, status>>
\* finally: os.unlink(toml_path); then the pending exception, if any, goes on
UnlinkToml ==
    /\ pc = "unlink_toml"
    /\ toml' = FALSE
    /\ IF faults = {}
       THEN pc' = "metadata" /\ succeeded' = Append(succeeded, "compile")
       ELSE pc' = "finally" /\ succeeded' = succeeded
    /\ UNCHANGED <<font, call, argc, config, i, faults, scratchExists, scratchFiles, copied, cmd,
                   temp, output, preview, started, status>>

\* apply_metadata is entered: font = TTFont(font_path)
OpenFont ==
    /\ pc = "metadata"
    /\ temp.state = "font"
    /\ started' = Append(started, "metadata")
    /\ font' = temp
    /\ call' = 1
    /\ pc' = "set_names"
    /\ UNCHANGED <<argc, config, i, faults, toml, scratchExists, scratchFiles, copied,
                   cmd, temp, output, preview, succeeded, status>>

\* TTFont(font_path) raises
OpenFontFail ==
    /\ pc = "metadata"
    /\ started' = Append(started, "metadata")
    /\ faults' = faults \cup {"metadata"}
    /\ pc' = "finally"
    /\ UNCHANGED <<font, call, argc, config, i, toml, scratchExists, scratchFiles,
                   copied, cmd, temp, output, preview, succeeded, status>>

\* the next of the set_name_record calls of apply_metadata
SetNameRecordCall ==
    /\ pc = "set_names"
    /\ call <= Len(MetadataFields(config.font))
    /\ LET field == MetadataFields(config.font)[call]
       IN  font' = [font EXCEPT !.names = SetNameRecord(font.names, field[1], field[2])]
    /\ call' = call + 1
    /\ UNCHANGED <<argc, pc, config, i, faults, toml, scratchExists, scratchFiles,
                   copied, cmd, temp, output, preview, started, succeeded, status>>

\* achVendID of the OS/2 table, when there is one
WithVendorId(f, fc) ==
    IF f.os2 THEN [f EXCEPT !.achVendID = LJust(VendorId(fc), 4)] ELSE f

\* the achVendID update, font.save(output_path) and font.close()
SaveFont ==
    /\ pc = "set_names"
    /\ call > Len(MetadataFields(config.font))
    /\ font' = WithVendorId(font, config.font)
    /\ output' = font'
    /\ succeeded' = Append(succeeded, "metadata")
    /\ pc' = "preview"
    /\ UNCHANGED <<argc, call, config, i, faults, toml, scratchExists, scratchFiles,
                   copied, cmd, temp, preview, started, status>>

\* font.save raises: output_path may hold part of the font
SaveFontFail ==
    /\ pc = "set_names"
    /\ call > Len(MetadataFields(config.font))
    /\ font' = WithVendorId(font, config.font)
    /\ \E o \in {output, PartialFile} : output' = o
    /\ faults' = faults \cup {"metadata"}
    /\ pc' = "finally"
    /\ UNCHANGED <<argc, call, config, i, toml, scratchExists, scratchFiles, copied,
                   cmd, temp, preview, started, succeeded, status>>

\* generate_preview_html(config, output_dir)
GeneratePreview ==
    /\ pc = "preview"
    /\ PreviewParses(glyphs_config)
    /\ started' = Append(started, "preview")
    /\ preview' = [state |-> "written", cards |-> GlyphCards(glyphs_config)]
    /\ succeeded' = Append(succeeded, "preview")
    /\ pc' = "finally"
    /\ UNCHANGED <<font, call, argc, config, i, faults, toml, scratchExists, scratchFiles, copied,
                   cmd, temp, output, status>>

\* open raises (nothing written) or f.write raises (part of the document written)
GeneratePreviewFail ==
    /\ pc = "preview"
    /\ started' = Append(started, "preview")
    /\ \E p \in {preview, [state |-> "partial", cards |-> <<>>]} : preview' = p
    /\ faults' = faults \cup {"preview"}
    /\ pc' = "finally"
    /\ UNCHANGED <<font, call, argc, config, i, toml, scratchExists, scratchFiles, copied, cmd,
                   temp, output, succeeded, status>>

\* finally of build_font: if os.path.exists(temp_path): os.unlink(temp_path)
Finally ==
    /\ pc = "finally"
    /\ temp' = NoFile
    /\ pc' = "done"
    /\ status' = IF faults = {} THEN "ok" ELSE "error"
    /\ UNCHANGED <<font, call, argc, config, i, faults, toml, scratchExists, scratchFiles, copied,
                   cmd, output, preview, started, succeeded>>

Next ==
    \/ Main
    \/ LoadConfig
    \/ LoadConfigFail
    \/ MakeTempFile
    \/ WriteToml
    \/ WriteTomlFail
    \/ Mkdtemp
    \/ MkdtempFail
    \/ CopyGlyph
    \/ CopyBadCodepoint
    \/ CopyMissing
    \/ CopyFail
    \/ RunCompiler
    \/ RunCompilerFail
    \/ Rmtree
    \/ RmtreeFail
    \/ UnlinkToml
    \/ OpenFont
    \/ OpenFontFail
    \/ SetNameRecordCall
    \/ SaveFont
    \/ SaveFontFail
    \/ GeneratePreview
    \/ GeneratePreviewFail
    \/ Finally

Spec == Init /\ [][Next]_vars

----------------------------------------------------------------------------
(* Properties of a run *)

Done == pc = "done"

SomeSvgMissing ==
    \E k \in 1..Len(glyphs_config) : glyphs_config[k].file \notin DOMAIN SvgDir

NoTemporaryLeft == ~toml /\ ~scratchExists /\ temp.state = "absent"

\* C1: when the compiler exited non-zero, the finished run has written neither
\* the output font nor preview.html, and the scratch directory, the TOML file
\* and the temporary font file are gone.
C1_CompilerFailureLeavesNothing ==
    (Done /\ "compiler" \in faults) =>
        /\ output.state = "absent"
        /\ preview.state = "absent"
        /\ NoTemporaryLeft

\* C2: when a glyph entry names an SVG that is not in the SVG directory, the
\* compiler is never invoked, the run ends in an error, and the scratch
\* directory does not exist once the run has ended.
C2_MissingSvgAbortsBeforeCompiler ==
    SomeSvgMissing =>
        /\ cmd = <<>>
        /\ Done => (status = "error" /\ ~scratchExists)

\* C3: on every exit path of build_font, the temporary resources the run
\* created (scratch directory, TOML file, temporary font file) are gone when
\* the run has ended.
C3_TemporariesRemovedOnEveryExit ==
    (Done /\ started # <<>>) => NoTemporaryLeft

StageOrder == <<"load", "compile", "metadata", "preview">>

IsPrefix(s, t) == Len(s) <= Len(t) /\ \A k \in 1..Len(s) : s[k] = t[k]

\* C5: the stages are entered in the order load, compile, metadata, preview,
\* each at most once; a stage is entered only when the one before it has
\* returned normally; after a failure no further stage is entered; and
\* preview.html is written only after the output font was written.
C5_StagesStrictlyLinear ==
    /\ IsPrefix(started, StageOrder)
    /\ IsPrefix(succeeded, started)
    /\ Len(started) <= Len(succeeded) + 1
    /\ faults # {} => Len(started) = Len(succeeded) + 1
    /\ preview.state # "absent" => output.state = "font"

C5_Witness ==
    /\ Done
    /\ "compiler" \in faults
    /\ started = <<"load", "compile">>

\* C9: with any number of positional arguments other than three, the run is a
\* usage error: no stage is entered, no file is created, and it ends with the
\* usage exit.
C9_OnlyThreeArgumentsRun ==
    argc # 4 =>
        /\ started = <<>>
        /\ temp.state = "absent" /\ ~toml /\ ~scratchExists
        /\ output.state = "absent" /\ preview.state = "absent"
        /\ Done => status = "usage"

ResolvedCodepoints ==
    {ResolveCodepoint(glyphs_config[k].codepoint) : k \in 1..Len(glyphs_config)}

\* the last entry that resolves to the same codepoint as entry k
LastWithCodepointOf(k) ==
    CHOOSE j \in k..Len(glyphs_config) :
        /\ ResolveCodepoint(glyphs_config[j].codepoint)
               = ResolveCodepoint(glyphs_config[k].codepoint)
        /\ \A h \in (j + 1)..Len(glyphs_config) :
               ResolveCodepoint(glyphs_config[h].codepoint)
                   # ResolveCodepoint(glyphs_config[k].codepoint)

CompilerJustInvoked == pc = "rmtree" /\ cmd # <<>>

\* C10: when the compiler is invoked, the scratch directory holds one file per
\* distinct resolved codepoint, the file of a codepoint holds the content of
\* the last entry with that codepoint, and the command line is the TOML path
\* followed by exactly the scratch files, each once.
C10_OneFilePerCodepoint ==
    CompilerJustInvoked =>
        /\ Len(copied) = Len(glyphs_config)
        /\ DOMAIN scratchFiles = {copied[k] : k \in 1..Len(copied)}
        /\ Cardinality(DOMAIN scratchFiles) = Cardinality(ResolvedCodepoints)
        /\ \A k \in 1..Len(copied) :
               scratchFiles[copied[k]] = SvgDir[glyphs_config[LastWithCodepointOf(k)].file]
        /\ cmd[2] = "toml_path"
        /\ Len(cmd) = 2 + Cardinality(DOMAIN scratchFiles)
        /\ {cmd[k] : k \in 3..Len(cmd)} = DOMAIN scratchFiles

C10_Witness ==
    /\ CompilerJustInvoked
    /\ Len(glyphs_config) = 2
    /\ Cardinality(ResolvedCodepoints) = 1
    /\ glyphs_config[1].file # glyphs_config[2].file
    /\ glyphs_config[1].codepoint # glyphs_config[2].codepoint

----------------------------------------------------------------------------
(* apply_metadata over font names and name tables *)

\* font names of up to MaxNameLen characters, with and without spaces
FontNames == SeqsUpTo({"A", " "}, MaxNameLen)

MetadataFonts ==
    {[name |-> n] : n \in FontNames} \cup {[FullFont EXCEPT !.name = n] : n \in FontNames}

\* a run that has compiled a font and is about to call apply_metadata
InitMetadata ==
    /\ argc = 4
    /\ pc = "metadata"
    /\ \E f \in MetadataFonts : config = [font |-> f]
    /\ i = 1
    /\ faults = {}
    /\ toml = FALSE
    /\ scratchExists = FALSE
    /\ scratchFiles = EmptyFn
    /\ copied = <<>>
    /\ cmd = CommandLine(<<>>)
    /\ \E names \in SeqsUpTo(NameRecordPool, MaxPreexisting) :
           temp = Font(names, TRUE, <<"?", "?", "?", "?">>)
    /\ font = NoFile
    /\ call = 1
    /\ output = NoFile
    /\ preview = NoPreview
    /\ started = <<"load", "compile">>
    /\ succeeded = <<"load", "compile">>
    /\ status = "running"

NextMetadata ==
    \/ OpenFont
    \/ OpenFontFail
    \/ SetNameRecordCall
    \/ SaveFont
    \/ SaveFontFail

SpecMetadata == InitMetadata /\ [][NextMetadata]_vars

\* the name IDs apply_metadata writes
WrittenNameIDs == {0, 1, 2, 3, 4, 5, 6, 8, 9, 11, 12, 13, 14, 15}

RecordsWithID(names, id) == {k \in 1..Len(names) : names[k].nameID = id}

\* C4: in the font apply_metadata saved, each of the 14 name IDs it writes has
\* exactly two records, one (3, 1, 0x409) and one (1, 0, 0), with the same
\* string, whatever records the compiled font had.
C4_TwoRecordsPerField ==
    output.state = "font" =>
        /\ Cardinality(WrittenNameIDs) = 14
        /\ \A id \in WrittenNameIDs :
               LET rs == RecordsWithID(output.names, id)
               IN  /\ Cardinality(rs) = 2
                   /\ \E w, m \in rs :
                          /\ SameKey(output.names[w], id, 3, 1, 1033)
                          /\ SameKey(output.names[m], id, 1, 0, 0)
                          /\ output.names[w].string = output.names[m].string

C4_Witness ==
    /\ output.state = "font"
    /\ Cardinality(RecordsWithID(temp.names, 1)) = 2
    /\ \E k \in 1..Len(temp.names) : temp.names[k].platformID = 0

\* the string of the Windows record of a name ID
WindowsString(names, id) ==
    names[CHOOSE k \in 1..Len(names) : SameKey(names[k], id, 3, 1, 1033)].string

NotSpace(c) == c # " "

HasSpace(s) == \E k \in 1..Len(s) : s[k] = " "

\* C8 as stated: the postscript name written is the font name with its spaces
\* removed, and so holds no space.
C8_PostscriptNameSpacesRemoved ==
    output.state = "font" =>
        /\ WindowsString(output.names, 6) = SelectSeq(config.font.name, NotSpace)
        /\ ~HasSpace(WindowsString(output.names, 6))

\* C8 as amended: the postscript name written is the font name with each space
\* replaced by a hyphen, the other characters unchanged and in place, and so
\* holds no space.
C8_PostscriptNameSpacesHyphenated ==
    output.state = "font" =>
        LET ps   == WindowsString(output.names, 6)
            name == config.font.name
        IN  /\ Len(ps) = Len(name)
            /\ \A k \in 1..Len(name) : ps[k] = IF name[k] = " " THEN "-" ELSE name[k]
            /\ ~HasSpace(ps)

C8_Witness ==
    /\ output.state = "font"
    /\ HasSpace(config.font.name)
    /\ \E k \in 1..Len(config.font.name) : config.font.name[k] # " "

----------------------------------------------------------------------------
(* generate_preview_html over glyph lists *)

\* the name table apply_metadata leaves in a font that came without name
\* records: a Windows and a Macintosh record per call, in call order
FreshNames(fc) ==
    [k \in 1..(2 * Len(MetadataFields(fc))) |->
        LET field == MetadataFields(fc)[(k + 1) \div 2]
        IN  IF k % 2 = 1 THEN NameRecord(field[2], field[1], 3, 1, 1033)
            ELSE NameRecord(field[2], field[1], 1, 0, 0)]

\* glyph entries with and without a "name", codepoints in both spellings
PreviewCodepoints ==
    {IntCp(10), StrCp(<<"0", "x", "E", "0", "0", "1">>), IntCp(128512)}
PreviewGlyphs ==
    [codepoint : PreviewCodepoints, file : {"a.svg"}, name : {Star}]
    \cup [codepoint : PreviewCodepoints, file : {"a.svg"}]

\* a run that has written the output font and is about to call
\* generate_preview_html
InitPreview ==
    /\ argc = 4
    /\ pc = "preview"
    /\ \E g \in SeqsUpTo(PreviewGlyphs, MaxCards) :
           config = [font |-> MinimalFont, glyphs |-> g]
    /\ i = Len(glyphs_config) + 1
    /\ faults = {}
    /\ toml = FALSE
    /\ scratchExists = FALSE
    /\ scratchFiles = EmptyFn
    /\ copied = [k \in 1..Len(glyphs_config) |->
                    DstFilename(ResolveCodepoint(glyphs_config[k].codepoint))]
    /\ \E order \in Orders({copied[k] : k \in 1..Len(copied)}) : cmd = CommandLine(order)
    /\ temp = Font(<<>>, TRUE, <<"?", "?", "?", "?">>)
    /\ output = Font(FreshNames(MinimalFont), TRUE, LJust(VendorId(MinimalFont), 4))
    /\ font = output
    /\ call = Len(MetadataFields(MinimalFont)) + 1
    /\ preview = NoPreview
    /\ started = <<"load", "compile", "metadata">>
    /\ succeeded = <<"load", "compile", "metadata">>
    /\ status = "running"

NextPreview ==
    \/ GeneratePreview
    \/ GeneratePreviewFail
    \/ Finally

SpecPreview == InitPreview /\ [][NextPreview]_vars

\* the U+XXXX text of the codepoints of PreviewCodepoints
ExpectedCode(cp) ==
    IF cp = IntCp(10) THEN <<"U+", "0", "0", "0", "A">>
    ELSE IF cp = IntCp(128512) THEN <<"U+", "1", "F", "6", "0", "0">>
    ELSE <<"U+", "E", "0", "0", "1">>

\* C7: the preview generate_preview_html writes holds one glyph card per glyph
\* entry, duplicates included, and the k-th card shows the name and the U+XXXX
\* codepoint of the k-th entry.
C7_OneCardPerGlyphInOrder ==
    preview.state = "written" =>
        /\ Len(preview.cards) = Len(glyphs_config)
        /\ \A k \in 1..Len(glyphs_config) :
               /\ preview.cards[k].name =
                      (IF "name" \in DOMAIN glyphs_config[k]
                       THEN glyphs_config[k].name ELSE <<"unknown">>)
               /\ preview.cards[k].code = ExpectedCode(glyphs_config[k].codepoint)

C7_Witness ==
    /\ preview.state = "written"
    /\ Len(glyphs_config) >= 3
    /\ glyphs_config[1] = glyphs_config[3]
    /\ glyphs_config[1] # glyphs_config[2]

----------------------------------------------------------------------------
(* The copy loop over spellings of a codepoint *)

\* codepoints and their lowercase hexadecimal digits
HexOf ==
    [n \in {0, 10, 255, 4096, 57345, 128512} |->
        CASE n = 0 -> <<"0">>
          [] n = 10 -> <<"a">>
          [] n = 255 -> <<"f", "f">>
          [] n = 4096 -> <<"1", "0", "0", "0">>
          [] n = 57345 -> <<"e", "0", "0", "1">>
          [] n = 128512 -> <<"1", "f", "6", "0", "0">>]

\* the scratch file name the adapter's convention gives each of them
ExpectedFilename ==
    [n \in DOMAIN HexOf |->
        CASE n = 0 -> <<"emoji_u", "0", "0", "0", "0", ".svg">>
          [] n = 10 -> <<"emoji_u", "0", "0", "0", "a", ".svg">>
          [] n = 255 -> <<"emoji_u", "0", "0", "f", "f", ".svg">>
          [] n = 4096 -> <<"emoji_u", "1", "0", "0", "0", ".svg">>
          [] n = 57345 -> <<"emoji_u", "e", "0", "0", "1", ".svg">>
          [] n = 128512 -> <<"emoji_u", "1", "f", "6", "0", "0", ".svg">>]

UpperOf(c) ==
    IF \E k \in 1..16 : LowerHexDigits[k] = c
    THEN UpperHexDigits[CHOOSE k \in 1..16 : LowerHexDigits[k] = c]
    ELSE c

\* the digits of d with each letter in either case
CaseVariants(d) ==
    {s \in [1..Len(d) -> {d[k] : k \in 1..Len(d)} \cup {UpperOf(d[k]) : k \in 1..Len(d)}] :
        \A k \in 1..Len(d) : s[k] \in {d[k], UpperOf(d[k])}}

Zeros(z) == [k \in 1..z |-> "0"]

\* the hex strings of n: an optional 0x or 0X, up to MaxLeadingZeros zeros, and
\* the digits of n in any mix of cases
HexStrings(n) ==
    {prefix \o Zeros(z) \o d :
        prefix \in {<<>>, <<"0", "x">>, <<"0", "X">>},
        z \in 0..MaxLeadingZeros,
        d \in CaseVariants(HexOf[n])}

CodepointSpellings ==
    UNION {{IntCp(n)} \cup {StrCp(s) : s \in HexStrings(n)} : n \in DOMAIN HexOf}

SpellingGlyphs == [codepoint : CodepointSpellings, file : {"a.svg"}, name : {Star}]

\* a run that has created the scratch directory and is about to copy two
\* glyph entries
InitCodepoint ==
    /\ argc = 4
    /\ pc = "copy"
    /\ \E g \in [1..2 -> SpellingGlyphs] : config = [font |-> MinimalFont, glyphs |-> g]
    /\ i = 1
    /\ faults = {}
    /\ toml = TRUE
    /\ scratchExists = TRUE
    /\ scratchFiles = EmptyFn
    /\ copied = <<>>
    /\ cmd = <<>>
    /\ temp = EmptyFile
    /\ font = NoFile
    /\ call = 1
    /\ output = NoFile
    /\ preview = NoPreview
    /\ started = <<"load", "compile">>
    /\ succeeded = <<"load">>
    /\ status = "running"

NextCodepoint == CopyGlyph

SpecCodepoint == InitCodepoint /\ [][NextCodepoint]_vars

\* entry j gives as a hex string the codepoint entry k gives as an integer
SameCodepointTwoWays(j, k) ==
    /\ glyphs_config[j].codepoint.isStr
    /\ ~glyphs_config[k].codepoint.isStr
    /\ glyphs_config[j].codepoint.s \in HexStrings(glyphs_config[k].codepoint.n)

\* C6: an entry that gives a codepoint as a hex string and an entry that gives
\* it as an integer are copied to the same scratch file name, emoji_u<lowercase
\* hex, at least 4 digits>.svg.
C6_HexStringAndIntegerAgree ==
    \A j, k \in 1..Len(copied) :
        SameCodepointTwoWays(j, k) =>
            /\ copied[j] = copied[k]
            /\ copied[k] = ExpectedFilename[glyphs_config[k].codepoint.n]

C6_Witness ==
    /\ Len(copied) = 2
    /\ glyphs_config[1].codepoint = StrCp(<<"0", "x", "1", "F", "6", "0", "0">>)
    /\ glyphs_config[2].codepoint = IntCp(128512)

====
